---- MODULE Spec2Model ----
(***************************************************************************)
(* Model of src/polyhedron.py: the Polyhedron object (read_file, centroid, *)
(* rotations) and the Drawing object (projection, shading, painter's       *)
(* ordering, pointer handlers), driven as main() drives them.              *)
(*                                                                         *)
(* Arithmetic.  Coordinates are integers.  Angles are integers in units of *)
(* pi/4, so HalfPi = 2; cos and sin are exact (0, 1, -1) at the multiples  *)
(* of pi/2, which are the only angles the model rotates by.  Screen        *)
(* lengths are integers in quarter pixels, which makes width/2 and         *)
(* origin[1]/2 exact.  A float the code may compute as NaN carries a nan   *)
(* flag.                                                                   *)
(***************************************************************************)
EXTENDS Integers, Sequences, FiniteSets, TLC

\* ------------------------------------------------------------------ bounds
MaxV     == 2   \* vertex count declared by the descriptions of LoadFiles
MaxF     == 2   \* face count declared by a description
MaxLen   == 3   \* ids on a face line of LoadFiles
MaxLoads == 2   \* read_file calls on one Polyhedron object
MaxPos   == 1   \* pointer coordinates are 0..MaxPos
MaxTurn  == 1   \* programmatic rotations are by -MaxTurn..MaxTurn quarter turns

VARIABLES
    pc,               \* "start", "loaded", "ready", "mainloop", "crashed"
    err,              \* the exception that ended the program, or "none"
    num_vertices,     \* Polyhedron.num_vertices
    num_faces,        \* Polyhedron.num_faces
    vertices,         \* Polyhedron.vertices: row r of the array is vertices[r+1]
    faces,            \* Polyhedron.faces: 0-based index tuples
    loads,            \* read_file calls made so far
    width, height,    \* canvas.winfo_width(), canvas.winfo_height(), in pixels
    origin,           \* Drawing.origin, in quarter pixels
    start_x, start_y, \* Drawing.start_x, Drawing.start_y
    z_ordered_faces,  \* draw_polyhedron's list, as its last pass left it
    canvas,           \* the items on the canvas, in creation order
    lastOp,           \* the last operation and its arguments
    prev              \* the vertex array before a direct rotate_x/y/z call, when
                      \* that call was the last operation; <<>> otherwise

poly == <<num_vertices, num_faces, vertices, faces>>
draw == <<width, height, origin, start_x, start_y, z_ordered_faces, canvas>>
vars == <<pc, err, poly, loads, draw, lastOp, prev>>

Op(name, a, b) == [op |-> name, x |-> a, y |-> b]

\* ---------------------------------------------------------- numpy indexing
\* a[i] accepts -n <= i < n and counts a negative i from the end.
InBounds(i, n) == -n <= i /\ i < n

Slot(i, n) == (IF i < 0 THEN i + n ELSE i) + 1

Row(V, i) == V[Slot(i, Len(V))]

\* ------------------------------------------------ Polyhedron.read_file
\* A description is its header counts and the lines after the header, each
\* line the sequence of its comma-separated numeric fields.  Reading past the
\* end gives the empty line, as f.readline() gives "".
Line(lines, i) == IF i <= Len(lines) THEN lines[i] ELSE <<>>

RECURSIVE ReadVertices(_, _, _, _)
ReadVertices(lines, n, i, V) ==
    IF i > n THEN [err |-> "none", v |-> V]
    ELSE LET l == Line(lines, i) IN
         IF Len(l) # 4 THEN [err |-> "ValueError", v |-> V]
         ELSE IF ~InBounds(l[1] - 1, n) THEN [err |-> "IndexError", v |-> V]
         ELSE ReadVertices(lines, n, i + 1,
                  [V EXCEPT ![Slot(l[1] - 1, n)] = <<l[2], l[3], l[4]>>])

RECURSIVE ReadFaces(_, _, _, _, _)
ReadFaces(lines, first, n, j, F) ==
    IF j > n THEN [err |-> "none", f |-> F]
    ELSE LET l == Line(lines, first + j) IN
         IF Len(l) = 0 THEN [err |-> "ValueError", f |-> F]
         ELSE ReadFaces(lines, first, n, j + 1,
                  Append(F, [k \in 1..Len(l) |-> l[k] - 1]))

read_file(f) ==
    LET rv == IF f.nv < 0 THEN [err |-> "ValueError", v |-> vertices]
              ELSE ReadVertices(f.lines, f.nv, 1, [i \in 1..f.nv |-> <<0, 0, 0>>])
        rf == IF rv.err = "none" THEN ReadFaces(f.lines, f.nv, f.nf, 1, faces)
              ELSE [err |-> rv.err, f |-> faces]
    IN  /\ num_vertices' = f.nv
        /\ num_faces' = f.nf
        /\ vertices' = rv.v
        /\ faces' = rf.f
        /\ err' = rf.err
        /\ pc' = IF rf.err = "none" THEN "loaded" ELSE "crashed"

ReadFile(f) ==
    /\ pc \in {"start", "loaded"}
    /\ loads < MaxLoads
    /\ read_file(f)
    /\ loads' = loads + 1
    /\ lastOp' = Op("read_file", f.nv, f.nf)
    /\ prev' = <<>>
    /\ UNCHANGED draw

\* ------------------------------------------- Polyhedron.calculate_centroid
\* A mean is kept exact as <<sum, count>>.
RECURSIVE SumCoord(_, _, _, _)
SumCoord(V, face, c, k) ==
    IF k > Len(face) THEN 0
    ELSE Row(V, face[k])[c] + SumCoord(V, face, c, k + 1)

calculate_centroid(V, face) ==
    [c \in 1..3 |-> <<SumCoord(V, face, c, 1), Len(face)>>]

\* ------------------------------------------------ Polyhedron.rotate_x/y/z
HalfPi == 2

Pi == 2 * HalfPi

\* np.cos and np.sin at a multiple of pi/2.
Cos(a) == LET q == (a \div HalfPi) % 4 IN
          IF q = 0 THEN 1 ELSE IF q = 2 THEN -1 ELSE 0

Sin(a) == LET q == (a \div HalfPi) % 4 IN
          IF q = 1 THEN 1 ELSE IF q = 3 THEN -1 ELSE 0

\* np.dot(vertices, matrix): every row vector times the matrix.
Dot(V, M) ==
    [r \in 1..Len(V) |->
        [j \in 1..3 |-> V[r][1] * M[1][j] + V[r][2] * M[2][j] + V[r][3] * M[3][j]]]

\* MatrixX with the sign of one sine lost.
MatrixX_SignSlip(a) == << <<1, 0, 0>>,
                          <<0, Cos(a), Sin(a)>>,
                          <<0, Sin(a), Cos(a)>> >>

MatrixX(a) == << <<1, 0, 0>>,
                 <<0, Cos(a), -Sin(a)>>,
                 <<0, Sin(a), Cos(a)>> >>

MatrixY(a) == << <<Cos(a), 0, Sin(a)>>,
                 <<0, 1, 0>>,
                 <<-Sin(a), 0, Cos(a)>> >>

MatrixZ(a) == << <<Cos(a), -Sin(a), 0>>,
                 <<Sin(a), Cos(a), 0>>,
                 <<0, 0, 1>> >>

rotate_x(V, a) == Dot(V, MatrixX(a))

rotate_y(V, a) == Dot(V, MatrixY(a))

rotate_z(V, a) == Dot(V, MatrixZ(a))

Rotate(name, V, a) ==
    /\ pc = "loaded"
    /\ vertices' = V
    /\ lastOp' = Op(name, a, 0)
    /\ prev' = vertices
    /\ UNCHANGED <<pc, err, num_vertices, num_faces, faces, loads, draw>>

RotateX(a) == Rotate("rotate_x", rotate_x(vertices, a), a)

RotateY(a) == Rotate("rotate_y", rotate_y(vertices, a), a)

RotateZ(a) == Rotate("rotate_z", rotate_z(vertices, a), a)

\* ------------------------------------------------------ Drawing.__init__
Px(n) == 4 * n

NewDrawing(w, h) ==
    /\ pc = "loaded"
    /\ pc' = "ready"
    /\ width' = w
    /\ height' = h
    /\ origin' = <<Px(w) \div 2, Px(h) \div 2>>
    /\ start_x' = 0
    /\ start_y' = 0
    /\ lastOp' = Op("Drawing", w, h)
    /\ prev' = <<>>
    /\ UNCHANGED <<err, poly, loads, z_ordered_faces, canvas>>

\* ------------------------------------------------------- Drawing.project
\* project with origin[1] used for both axes.
project_OneOrigin(org, vertex, scaling_factor) ==
    <<org[2] + vertex[1] * scaling_factor, org[2] + vertex[2] * scaling_factor>>

project(org, vertex, scaling_factor) ==
    <<org[1] + vertex[1] * scaling_factor, org[2] + vertex[2] * scaling_factor>>

\* ----------------------------------------------- Drawing.draw_polyhedron
\* canvas.winfo_rgb of "#00005F" and of "#0000FF": 16 bits a channel.
RgbMin == <<0, 0, 24415>>

RgbMax == <<0, 0, 65535>>

Cross(a, b) == <<a[2] * b[3] - a[3] * b[2],
                 a[3] * b[1] - a[1] * b[3],
                 a[1] * b[2] - a[2] * b[1]>>

Minus(a, b) == <<a[1] - b[1], a[2] - b[2], a[3] - b[3]>>

\* np.linalg.norm, kept as its square.
NormSq(n) == n[1] * n[1] + n[2] * n[2] + n[3] * n[3]

Normal(V, face) ==
    Cross(Minus(Row(V, face[2]), Row(V, face[1])),
          Minus(Row(V, face[3]), Row(V, face[2])))

\* normal / norm: the unit vector n / sqrt(n2); 0/0 is NaN in every component.
Normalize(n) == [nan |-> NormSq(n) = 0, n |-> n, n2 |-> NormSq(n)]

\* np.dot(normal, [0, 0, 1]): the cosine c / sqrt(n2), NaN for a NaN normal.
DotZ(u) == [nan |-> u.nan, c |-> u.n[3], n2 |-> u.n2]

\* np.clip(x, -1, 1); a NaN stays NaN.
Clip(x) == IF x.nan THEN x
           ELSE IF x.c * x.c > x.n2
                THEN [nan |-> FALSE, c |-> IF x.c > 0 THEN 1 ELSE -1, n2 |-> 1]
                ELSE x

\* np.arccos: exact at -1, 0 and 1; a cosine strictly between two of them
\* gives the middle of that quadrant.  arccos of NaN is NaN.
ArcCos(x) ==
    [nan |-> x.nan,
     a |-> IF x.nan THEN 0
           ELSE IF x.c = 0 THEN HalfPi
           ELSE IF x.c * x.c = x.n2 THEN (IF x.c > 0 THEN 0 ELSE Pi)
           ELSE IF x.c > 0 THEN HalfPi \div 2
           ELSE HalfPi + HalfPi \div 2]

\* ShadeAngle without the fold of an obtuse angle.
ShadeAngle_NoFold(theta) ==
    [nan |-> theta.nan, a |-> IF theta.nan THEN 0 ELSE HalfPi - theta.a]

\* The angle the shade is interpolated by: folded into 0..pi/2, then taken
\* from pi/2.  A comparison with NaN is false and NaN stays NaN.
ShadeAngle(theta) ==
    [nan |-> theta.nan,
     a |-> IF theta.nan THEN 0
           ELSE HalfPi - (IF theta.a > HalfPi THEN Pi - theta.a ELSE theta.a)]

\* int(min + (max - min) * angle / (pi / 2)); int of NaN raises ValueError.
Channel(lo, hi, angle) == lo + ((hi - lo) * angle) \div HalfPi

\* f"{n:04x}" as its hex digits.
Hex4(n) == <<(n \div 4096) % 16, (n \div 256) % 16, (n \div 16) % 16, n % 16>>

Color(angle) ==
    Hex4(Channel(RgbMin[1], RgbMax[1], angle))
        \o Hex4(Channel(RgbMin[2], RgbMax[2], angle))
        \o Hex4(Channel(RgbMin[3], RgbMax[3], angle))

\* One pass of the first loop's body: the exception it raises, or the entry
\* (z_centroid, face, color) it appends.
FaceEntry(V, face) ==
    LET n == Len(V) IN
    IF Len(face) < 3 \/ \E k \in 1..3 : ~InBounds(face[k], n)
    THEN [err |-> "IndexError", e |-> <<>>]
    ELSE LET angle == ShadeAngle(ArcCos(Clip(DotZ(Normalize(Normal(V, face)))))) IN
         IF angle.nan THEN [err |-> "ValueError", e |-> <<>>]
         ELSE IF \E k \in 4..Len(face) : ~InBounds(face[k], n)
         THEN [err |-> "IndexError", e |-> <<>>]
         ELSE [err |-> "none",
               e |-> <<calculate_centroid(V, face)[3], face, Color(angle.a)>>]

RECURSIVE FirstLoop(_, _, _, _)
FirstLoop(V, F, i, acc) ==
    IF i > Len(F) THEN [err |-> "none", l |-> acc]
    ELSE LET r == FaceEntry(V, F[i]) IN
         IF r.err # "none" THEN [err |-> r.err, l |-> acc]
         ELSE FirstLoop(V, F, i + 1, Append(acc, r.e))

\* Python's order on the tuples (z_centroid, face, color).
RECURSIVE SeqLess(_, _, _)
SeqLess(a, b, k) ==
    IF k > Len(a) THEN k <= Len(b)
    ELSE IF k > Len(b) THEN FALSE
    ELSE IF a[k] # b[k] THEN a[k] < b[k]
    ELSE SeqLess(a, b, k + 1)

ZLess(a, b) == a[1] * b[2] < b[1] * a[2]

EntryLess(a, b) ==
    IF ZLess(a[1], b[1]) THEN TRUE
    ELSE IF ZLess(b[1], a[1]) THEN FALSE
    ELSE IF a[2] # b[2] THEN SeqLess(a[2], b[2], 1)
    ELSE SeqLess(a[3], b[3], 1)

\* list.sort(reverse=True): descending, equal entries in their given order.
RECURSIVE InsertDesc(_, _, _)
InsertDesc(e, S, k) ==
    IF k > Len(S) THEN Append(S, e)
    ELSE IF EntryLess(S[k], e)
         THEN SubSeq(S, 1, k - 1) \o <<e>> \o SubSeq(S, k, Len(S))
         ELSE InsertDesc(e, S, k + 1)

RECURSIVE SortDesc(_, _, _)
SortDesc(L, i, acc) ==
    IF i > Len(L) THEN acc ELSE SortDesc(L, i + 1, InsertDesc(L[i], acc, 1))

\* The second loop: a marker at each projected vertex, then the polygon.
Oval(c) == [kind |-> "oval",
            coords |-> <<c[1] - Px(5), c[2] - Px(5), c[1] + Px(5), c[2] + Px(5)>>,
            fill |-> "blue"]

Polygon(coords, color) == [kind |-> "polygon", coords |-> coords, fill |-> color]

FaceItems(V, org, scaling_factor, entry) ==
    LET face == entry[2]
        coords == [k \in 1..Len(face) |-> project(org, Row(V, face[k]), scaling_factor)]
    IN [k \in 1..Len(face) |-> Oval(coords[k])] \o <<Polygon(coords, entry[3])>>

RECURSIVE SecondLoop(_, _, _, _, _)
SecondLoop(V, org, scaling_factor, L, i) ==
    IF i > Len(L) THEN <<>>
    ELSE FaceItems(V, org, scaling_factor, L[i])
             \o SecondLoop(V, org, scaling_factor, L, i + 1)

scaling_factor(org) == org[2] \div 2

\* The pass over vertex array V, onto the items `shown`: the exception, the
\* list and the canvas it leaves.
draw_polyhedron(V, shown) ==
    LET first == FirstLoop(V, faces, 1, <<>>)
        sorted == SortDesc(first.l, 1, <<>>)
    IN IF first.err # "none"
       THEN [err |-> first.err, l |-> first.l, canvas |-> shown]
       ELSE [err |-> "none", l |-> sorted,
             canvas |-> shown \o SecondLoop(V, origin, scaling_factor(origin), sorted, 1)]

\* DrawPolyhedron sorting the mesh's own face list in place.
DrawPolyhedron_SortsMesh ==
    /\ pc = "ready"
    /\ \E r \in {draw_polyhedron(vertices, canvas)} :
        /\ err' = r.err
        /\ pc' = IF r.err = "none" THEN "mainloop" ELSE "crashed"
        /\ z_ordered_faces' = r.l
        /\ canvas' = r.canvas
        /\ faces' = IF r.err = "none" THEN [i \in 1..Len(r.l) |-> r.l[i][2]] ELSE faces
    /\ lastOp' = Op("draw_polyhedron", 0, 0)
    /\ prev' = <<>>
    /\ UNCHANGED <<num_vertices, num_faces, vertices, loads, width, height, origin,
                   start_x, start_y>>

\* main(): drawing.draw_polyhedron(polyhedron), then root.mainloop().  An
\* exception here ends the program.  The pass keeps the mesh it was given as
\* self.polyhedron: the one Polyhedron object, which mouse_drag then turns.
DrawPolyhedron ==
    /\ pc = "ready"
    /\ \E r \in {draw_polyhedron(vertices, canvas)} :
        /\ err' = r.err
        /\ pc' = IF r.err = "none" THEN "mainloop" ELSE "crashed"
        /\ z_ordered_faces' = r.l
        /\ canvas' = r.canvas
    /\ lastOp' = Op("draw_polyhedron", 0, 0)
    /\ prev' = <<>>
    /\ UNCHANGED <<poly, loads, width, height, origin, start_x, start_y>>

\* ------------------------------------- Drawing.mouse_click / mouse_drag
MouseClick(x, y) ==
    /\ pc = "mainloop"
    /\ start_x' = x
    /\ start_y' = y
    /\ lastOp' = Op("mouse_click", x, y)
    /\ prev' = <<>>
    /\ UNCHANGED <<pc, err, poly, loads, width, height, origin, z_ordered_faces, canvas>>

\* dy * 0.001 and -dx * 0.001 radians: the model's pointer unit is the
\* distance that turns the mesh by a quarter turn.
K == HalfPi

\* MouseDrag turning about y before x.
MouseDrag_YThenX(x, y) ==
    /\ pc = "mainloop"
    /\ \E dx \in {start_x - x}, dy \in {start_y - y} :
       \E V \in {rotate_x(rotate_y(vertices, (-dx) * K), dy * K)} :
       \E r \in {draw_polyhedron(V, <<>>)} :
          /\ vertices' = V
          /\ canvas' = r.canvas
          /\ z_ordered_faces' = r.l
          /\ err' = r.err
          /\ start_x' = IF r.err = "none" THEN x ELSE start_x
          /\ start_y' = IF r.err = "none" THEN y ELSE start_y
    /\ lastOp' = Op("mouse_drag", x, y)
    /\ prev' = <<>>
    /\ UNCHANGED <<pc, num_vertices, num_faces, faces, loads, width, height, origin>>

\* Tk reports an exception raised by a callback and the main loop goes on.
MouseDrag(x, y) ==
    /\ pc = "mainloop"
    /\ \E dx \in {start_x - x}, dy \in {start_y - y} :
       \E V \in {rotate_y(rotate_x(vertices, dy * K), (-dx) * K)} :
       \E r \in {draw_polyhedron(V, <<>>)} :
          /\ vertices' = V
          /\ canvas' = r.canvas
          /\ z_ordered_faces' = r.l
          /\ err' = r.err
          /\ start_x' = IF r.err = "none" THEN x ELSE start_x
          /\ start_y' = IF r.err = "none" THEN y ELSE start_y
    /\ lastOp' = Op("mouse_drag", x, y)
    /\ prev' = <<>>
    /\ UNCHANGED <<pc, num_vertices, num_faces, faces, loads, width, height, origin>>

\* ------------------------------------------------------------ the inputs
\* The tetrahedron of the format's reference description with up to MaxF
\* faces, in any order and none listed twice: its four triangles and a face
\* that lists a vertex twice.
Tetra == << <<0, 0, 0>>, <<1, 0, 0>>, <<0, 1, 0>>, <<0, 0, 1>> >>

TetraLines == [i \in 1..Len(Tetra) |-> <<i>> \o Tetra[i]]

TetraFaces ==
    {f \in [1..3 -> 1..Len(Tetra)] : f[1] < f[2] /\ f[2] < f[3]} \cup {<<1, 1, 2>>}

MeshFiles ==
    {[nv |-> Len(Tetra), nf |-> Len(fs), lines |-> TetraLines \o fs] :
        fs \in UNION {{g \in [1..n -> TetraFaces] :
                          \A i, j \in 1..n : g[i] = g[j] => i = j} : n \in 0..MaxF}}

\* Descriptions of arbitrary shape, for the loader.  One section varies
\* while the other is as the grammar asks: any vertex ids on any number of
\* the declared vertex lines, or any one face line, any number of times,
\* under any declared face count.
PointOf(i) == <<i, i, i>>

VertexLines(ids) == [i \in 1..Len(ids) |-> <<ids[i]>> \o PointOf(i)]

Ident(n) == [i \in 1..n |-> i]

FaceLinesOver(n) ==
    UNION {[1..len -> 0..(n + 1)] : len \in 1..MaxLen}

VertexVariants ==
    UNION {{[nv |-> n, nf |-> 0, lines |-> SubSeq(VertexLines(ids), 1, k)] :
                ids \in [1..n -> 0..(n + 1)], k \in 0..n} : n \in 0..MaxV}

FaceVariants ==
    UNION {{[nv |-> n, nf |-> d, lines |-> VertexLines(Ident(n)) \o [j \in 1..m |-> l]] :
                d \in 0..MaxF, m \in 0..MaxF, l \in FaceLinesOver(n)} : n \in 0..MaxV}

LoadFiles == VertexVariants \cup FaceVariants

Angles == {t * HalfPi : t \in (-MaxTurn)..MaxTurn}

CanvasSizes == {<<6, 4>>, <<5, 3>>}

Positions == 0..MaxPos

\* ------------------------------------------------------ specifications
Init ==
    /\ pc = "start"
    /\ err = "none"
    /\ num_vertices = 0
    /\ num_faces = 0
    /\ vertices = <<>>
    /\ faces = <<>>
    /\ loads = 0
    /\ width = 0
    /\ height = 0
    /\ origin = <<0, 0>>
    /\ start_x = 0
    /\ start_y = 0
    /\ z_ordered_faces = <<>>
    /\ canvas = <<>>
    /\ lastOp = Op("init", 0, 0)
    /\ prev = <<>>

\* main(): one read_file, the Drawing, the first pass, then the main loop's
\* pointer events; rotate_x/y/z are also called on the loaded mesh directly.
Next ==
    \/ pc = "start" /\ \E f \in MeshFiles : ReadFile(f)
    \/ \E a \in Angles : RotateX(a)
    \/ \E a \in Angles : RotateY(a)
    \/ \E a \in Angles : RotateZ(a)
    \/ \E s \in CanvasSizes : NewDrawing(s[1], s[2])
    \/ DrawPolyhedron
    \/ \E x \in Positions, y \in Positions : MouseClick(x, y)
    \/ \E x \in Positions, y \in Positions : MouseDrag(x, y)

Spec == Init /\ [][Next]_vars

\* A Polyhedron object whose read_file is called, again and again, on
\* descriptions of any shape.
LoadNext == \E f \in LoadFiles : ReadFile(f)

SpecLoad == Init /\ [][LoadNext]_vars
\* ---------------------------------------------------------------- claims
Rendered == pc = "mainloop"

DrawnFaces == [i \in 1..Len(z_ordered_faces) |-> z_ordered_faces[i][2]]

ZOf(face) == calculate_centroid(vertices, face)[3]

\* out is F ordered by centroid z descending, equal z in F's own order.
StableDepthOrder(out, F) ==
    /\ Len(out) = Len(F)
    /\ \E p \in Permutations(1..Len(F)) :
        /\ \A i \in 1..Len(F) : out[i] = F[p[i]]
        /\ \A i, j \in 1..Len(F) :
              i < j => \/ ZLess(ZOf(F[p[j]]), ZOf(F[p[i]]))
                       \/ (~ZLess(ZOf(F[p[i]]), ZOf(F[p[j]])) /\ p[i] < p[j])

\* C1: after every pass the faces are drawn in centroid-z descending order,
\* faces of equal centroid z in the order of the mesh's face list.
C1_StableDepthOrder == Rendered => StableDepthOrder(DrawnFaces, faces)

\* C2: after a successful load every stored face index is in
\* 0..num_vertices-1, a description with an id outside 1..vertex_count having
\* been refused.
C2_IdsValidated ==
    pc = "loaded" =>
        \A i \in 1..Len(faces) : \A k \in 1..Len(faces[i]) :
            0 <= faces[i][k] /\ faces[i][k] < num_vertices

Degenerate(face) == NormSq(Normal(vertices, face)) = 0

\* C3: a pass over a mesh with a degenerate face raises nothing and leaves an
\* entry, with its color, for every face.
C3_DegenerateFaceShaded ==
    (lastOp.op = "draw_polyhedron" /\ \E i \in 1..Len(faces) : Degenerate(faces[i]))
        => (err = "none" /\ Len(z_ordered_faces) = Len(faces))

\* C4: no successfully loaded mesh holds a face of fewer than 3 indices.
C4_ShortFacesRejected ==
    pc = "loaded" => \A i \in 1..Len(faces) : Len(faces[i]) >= 3

\* C5: a pointer-move at (x, y) turns the mesh by rotate_x(dy * k) and then
\* rotate_y(-dx * k), with (dx, dy) taken from the anchor, which is where the
\* preceding pointer event was; it redraws the whole mesh on a cleared canvas
\* and moves the anchor to (x, y).  A pointer-down only moves the anchor.
C5_DragStep ==
    [][/\ lastOp.op \in {"mouse_click", "mouse_drag"}
            => (start_x = lastOp.x /\ start_y = lastOp.y)
       /\ lastOp'.op = "mouse_drag"
            => /\ vertices' = rotate_y(rotate_x(vertices, (start_y - lastOp'.y) * K),
                                       (-(start_x - lastOp'.x)) * K)
               /\ err' = "none"
               /\ Len(z_ordered_faces') = Len(faces)
               /\ canvas' = SecondLoop(vertices', origin, scaling_factor(origin),
                                       z_ordered_faces', 1)
               /\ start_x' = lastOp'.x /\ start_y' = lastOp'.y
       /\ lastOp'.op = "mouse_click"
            => /\ vertices' = vertices
               /\ canvas' = canvas
               /\ start_x' = lastOp'.x /\ start_y' = lastOp'.y]_vars

C5_Dragged ==
    /\ lastOp.op = "mouse_drag"
    /\ start_x = lastOp.x /\ start_y = lastOp.y
    /\ vertices # Tetra
    /\ Len(canvas) > 0

IsPolygon(item) == item.kind = "polygon"

Polygons == SelectSeq(canvas, IsPolygon)

\* Every polygon on the canvas is its face's vertices, each at
\* (ox + x * s, oy + y * s), whatever its z.
ProjectedWith(ox, oy, s) ==
    /\ Len(Polygons) = Len(z_ordered_faces)
    /\ \A i \in 1..Len(Polygons) :
          LET face == z_ordered_faces[i][2] IN
          Polygons[i].coords =
              [k \in 1..Len(face) |->
                  <<ox + Row(vertices, face[k])[1] * s,
                    oy + Row(vertices, face[k])[2] * s>>]

\* C6, as stated: the projection is about the canvas centre with the scaling
\* factor half the canvas height.
C6_ScaleHalfHeight ==
    Rendered => ProjectedWith(Px(width) \div 2, Px(height) \div 2, Px(height) \div 2)

\* C6, amended: the projection is about the canvas centre with the scaling
\* factor a quarter of the canvas height (half of origin[1]).
C6_ScaleQuarterHeight ==
    Rendered => ProjectedWith(Px(width) \div 2, Px(height) \div 2, Px(height) \div 4)

C6_Projected ==
    /\ Rendered
    /\ \E i \in 1..Len(Polygons) : \E j, k \in 1..Len(Polygons[i].coords) :
          /\ Polygons[i].coords[j][1] # origin[1]
          /\ Polygons[i].coords[k][2] # origin[2]

\* "#00005F" and "#0000FF" in the 16-bit form the pass writes.
ShadeMin == <<0, 0, 0, 0,  0, 0, 0, 0,  5, 15, 5, 15>>

ShadeMax == <<0, 0, 0, 0,  0, 0, 0, 0,  15, 15, 15, 15>>

Orthogonal(face) == ~Degenerate(face) /\ Normal(vertices, face)[3] = 0

Parallel(face) ==
    LET n == Normal(vertices, face) IN n[1] = 0 /\ n[2] = 0 /\ n[3] # 0

\* C7: a face whose normal is orthogonal to (0,0,1) is filled with the
\* minimum shade, and one whose normal is parallel to it, toward the viewer
\* or away, with the maximum shade.
C7_BoundaryShades ==
    Rendered =>
        \A i \in 1..Len(z_ordered_faces) :
            LET face == z_ordered_faces[i][2]
                color == z_ordered_faces[i][3]
            IN /\ Orthogonal(face) => color = ShadeMin
               /\ Parallel(face) => color = ShadeMax

C7_BothBoundaries ==
    /\ Rendered
    /\ \E i \in 1..Len(faces) : Orthogonal(faces[i])
    /\ \E i \in 1..Len(faces) :
          Parallel(faces[i]) /\ Normal(vertices, faces[i])[3] < 0

\* C8: once rotate_x(a) has turned the mesh, rotate_x(-a) gives back the
\* vertex array it had before, whatever the number of faces.
C8_RotateXBack ==
    lastOp.op = "rotate_x" => rotate_x(vertices, -lastOp.x) = prev

C8_Turned ==
    /\ lastOp.op = "rotate_x"
    /\ lastOp.x # 0
    /\ vertices # prev
    /\ Len(faces) = MaxF

\* C9: after a successful load num_vertices is the number of rows of the
\* vertex array and num_faces the length of the face list, both as the last
\* description's header declares.
C9_CountsMatch ==
    pc = "loaded" =>
        /\ num_vertices = Len(vertices) /\ num_vertices = lastOp.x
        /\ num_faces = Len(faces) /\ num_faces = lastOp.y

\* C10: after the load the face list and the two counts never change, and the
\* vertex array changes only in a rotation call or in the drag that makes
\* them: a pass, a pointer-down and the Drawing's construction leave it alone.
C10_FrameAfterLoad ==
    [][pc # "start" =>
          /\ faces' = faces
          /\ num_vertices' = num_vertices
          /\ num_faces' = num_faces
          /\ lastOp'.op \in {"draw_polyhedron", "mouse_click", "Drawing"}
                => vertices' = vertices
          /\ vertices' # vertices
                => lastOp'.op \in {"rotate_x", "rotate_y", "rotate_z", "mouse_drag"}]_vars

C10_TurnedAndDrawn ==
    /\ Rendered
    /\ lastOp.op = "mouse_click"
    /\ vertices # Tetra
    /\ Len(faces) = MaxF
    /\ Len(Polygons) = MaxF
====
